---- MODULE Spec2Model ----
(***************************************************************************)
(* Model of src/rules/jsxTagSpacingRule.ts (rule "jsx-tag-spacing").       *)
(*                                                                         *)
(* The rule walks a syntax tree, and on every JSX opening / closing tag    *)
(* runs up to four boundary validators that append failures (diagnostics)  *)
(* with a fix to ctx.failures.                                             *)
(*                                                                         *)
(* Source text is a sequence of one-character strings.  Every character    *)
(* that is not whitespace is one token (tag name "F", attribute "a",       *)
(* following content "x", and the delimiters "<", "/", ">").               *)
(* An optional JavaScript value is a sequence of length 0 (undefined) or 1.*)
(***************************************************************************)
EXTENDS Integers, Sequences, FiniteSets, TLC

(***************************************************************************)
(* Bounds of the model.                                                    *)
(***************************************************************************)
\* longest whitespace run placed between two tokens
MaxGap == 2
\* deepest nesting of JSX elements inside one another
MaxDepth == 2

(***************************************************************************)
(* Constants of the rule (lines 23-27, 75-84).                             *)
(***************************************************************************)
OPTION_ALWAYS == "always"
OPTION_NEVER == "never"
OPTION_ALLOW == "allow"
OPTION_ALLOW_MULTILINE == "allow-multiline"
SPACING_VALUES == {OPTION_ALWAYS, OPTION_NEVER, OPTION_ALLOW}
AFTER_OPENING_VALUES == SPACING_VALUES \cup {OPTION_ALLOW_MULTILINE}

FAILURE_SELF_CLOSING_NEVER == "FAILURE_SELF_CLOSING_NEVER"
FAILURE_SELF_CLOSING_ALWAYS == "FAILURE_SELF_CLOSING_ALWAYS"
FAILURE_CLOSING_NEVER == "FAILURE_CLOSING_NEVER"
FAILURE_CLOSING_ALWAYS == "FAILURE_CLOSING_ALWAYS"
FAILURE_BEFORE_SELF_CLOSING_NEVER == "FAILURE_BEFORE_SELF_CLOSING_NEVER"
FAILURE_BEFORE_SELF_CLOSING_ALWAYS == "FAILURE_BEFORE_SELF_CLOSING_ALWAYS"
FAILURE_AFTER_OPENING_NEVER == "FAILURE_AFTER_OPENING_NEVER"
FAILURE_AFTER_OPENING_ALWAYS == "FAILURE_AFTER_OPENING_ALWAYS"
FAILURE_BEFORE_CLOSING_NEVER == "FAILURE_BEFORE_CLOSING_NEVER"
FAILURE_BEFORE_CLOSING_ALWAYS == "FAILURE_BEFORE_CLOSING_ALWAYS"

\* a property the configuration object does not have reads as undefined
UNSET == "undefined"

\* the four properties of IRuleOptions (lines 34-39)
Boundaries == {"closingSlash", "beforeSelfClosing", "afterOpening", "beforeClosing"}

IRuleOptions ==
    [closingSlash : SPACING_VALUES \cup {UNSET},
     beforeSelfClosing : SPACING_VALUES \cup {UNSET},
     afterOpening : AFTER_OPENING_VALUES \cup {UNSET},
     beforeClosing : SPACING_VALUES \cup {UNSET}]

(***************************************************************************)
(* Source text and tokens.                                                 *)
(***************************************************************************)
SP == " "
NL == "\n"

IsWhitespace(c) == c \in {SP, NL}

\* all whitespace runs of at most n characters
GapsUpTo(n) == UNION {[1..k -> {SP, NL}] : k \in 0..n}

\* positions (1-based) of the characters of text that are tokens
TokenIndexes(text) ==
    SelectSeq([i \in 1..Len(text) |-> i], LAMBDA i : ~IsWhitespace(text[i]))

\* the tokens of text, in source order, with offsets relative to the text;
\* the whitespace before a token lies between the previous token's end and
\* this token's fullStart
Tokens(text) ==
    LET idx == TokenIndexes(text)
    IN [k \in 1..Len(idx) |->
           [ch |-> text[idx[k]], fullStart |-> idx[k] - 1, end |-> idx[k]]]

\* index of the first ">" token of toks, 0 when there is none
FirstEndBracket(toks) ==
    IF \E k \in 1..Len(toks) : toks[k].ch = ">"
    THEN CHOOSE k \in 1..Len(toks) :
            /\ toks[k].ch = ">"
            /\ \A j \in 1..(k - 1) : toks[j].ch # ">"
    ELSE 0

\* node.getChildren(): the tokens of the tag itself, up to its end bracket
getChildren(node) ==
    LET toks == Tokens(node.text)
        k == FirstEndBracket(toks)
    IN IF k = 0 THEN toks ELSE SubSeq(toks, 1, k)

\* the token that follows the tag in the source (first token of the next
\* sibling content), undefined when the text ends with the tag
NextSiblingToken(node) ==
    LET toks == Tokens(node.text)
        k == FirstEndBracket(toks)
    IN IF k # 0 /\ k < Len(toks) THEN <<toks[k + 1]>> ELSE <<>>

getChildCount(node) == Len(getChildren(node))


\* node.getChildAt(index), index counted from 0: an index outside the
\* children array reads as undefined
getChildAt(node, index) ==
    IF index >= 0 /\ index < getChildCount(node)
    THEN <<getChildren(node)[index + 1]>>
    ELSE <<>>

getFirstToken(node) == getChildAt(node, 0)

getLastToken(node) == getChildAt(node, getChildCount(node) - 1)

\* offset in the source file of an offset relative to the node's text
SrcOffset(node, rel) == node.start + rel

\* node.getStart(): the tag's text starts at its first token
getStart(node) == node.start

(***************************************************************************)
(* Node classification (tsutils type guards, line 19): a node has exactly  *)
(* one syntax kind, and each guard tests for one kind.                     *)
(***************************************************************************)
JsxElement == "JsxElement"
JsxOpeningElement == "JsxOpeningElement"
JsxSelfClosingElement == "JsxSelfClosingElement"
JsxClosingElement == "JsxClosingElement"

isJsxOpeningElement(node) == node.kind = JsxOpeningElement

isJsxSelfClosingElement(node) == node.kind = JsxSelfClosingElement

isJsxClosingElement(node) == node.kind = JsxClosingElement

(***************************************************************************)
(* Fixes (Lint.Replacement) and failures (ctx.addFailureAt).               *)
(***************************************************************************)
Replacement(start, length, text) ==
    [start |-> start, length |-> length, text |-> text]

deleteFromTo(start, end) == Replacement(start, end - start, <<>>)

appendText(start, text) == Replacement(start, 0, text)

\* the text (which starts at source offset textStart) after the edit
ApplyFix(text, textStart, r) ==
    LET rel == r.start - textStart
    IN SubSeq(text, 1, rel) \o r.text \o SubSeq(text, rel + r.length + 1, Len(text))

\* ctx.addFailureAt(start, width, failure, fix); fix is <<>> when absent
addFailureAt(failures, start, width, failure, fix) ==
    Append(failures,
           [start |-> start, length |-> width, message |-> failure, fix |-> fix])

\* result of running a piece of code on ctx.failures: either it returned,
\* or it threw and the failures are as they were when it threw
Returned(failures) == [threw |-> FALSE, failures |-> failures]

Threw(failures) == [threw |-> TRUE, failures |-> failures]

\* the same for the callback, with the validators it called, in call order
Outcome(r, calls) == [threw |-> r.threw, failures |-> r.failures, calls |-> calls]

(***************************************************************************)
(* Whitespace classifier and delete-fix helper (../utils, not in src/).    *)
(***************************************************************************)
\* the text between two offsets; empty when the second is not after the first
Slice(text, from, to) ==
    IF to > from THEN SubSeq(text, from + 1, to) ELSE <<>>

Classify(text, earlier, later) ==
    LET gap == Slice(text, earlier.end, later.fullStart)
    IN [hasAnyWhitespaceOrNewline |->
            /\ gap # <<>>
            /\ \A i \in 1..Len(gap) : IsWhitespace(gap[i]),
        hasLineBreak |-> \E i \in 1..Len(gap) : gap[i] = NL,
        gapStart |-> earlier.end,
        gapEnd |-> later.fullStart,
        gap |-> gap]

\* reading an offset of an undefined token is a TypeError
ReadsUndefinedToken(firstNode, secondNode) == firstNode = <<>> \/ secondNode = <<>>

\* the delete fix for the whitespace between the two tokens, undefined when
\* there is none
getDeleteFixForSpaceBetweenTokens(node, firstNode, secondNode) ==
    LET c == Classify(node.text, firstNode[1], secondNode[1])
    IN IF c.hasAnyWhitespaceOrNewline
       THEN <<deleteFromTo(SrcOffset(node, c.gapStart), SrcOffset(node, c.gapEnd))>>
       ELSE <<>>

(***************************************************************************)
(* validateClosingSlash (lines 123-145).                                   *)
(***************************************************************************)
closingSlashTokensOffByOne(node) ==
    IF isJsxSelfClosingElement(node)
    THEN <<getLastToken(node), getChildAt(node, getChildCount(node) - 1)>>
    ELSE <<getFirstToken(node), getChildAt(node, 0)>>

\* lastTokens (line 125) and firstTokens (line 135)
closingSlashTokens(node) ==
    IF isJsxSelfClosingElement(node)
    THEN <<getLastToken(node), getChildAt(node, getChildCount(node) - 2)>>
    ELSE <<getFirstToken(node), getChildAt(node, 1)>>

\* lines 126-133, on lastTokens
validateSelfClosingSlash(failures, node, option, lastTokens) ==
    IF ReadsUndefinedToken(lastTokens[1], lastTokens[2])
    THEN Threw(failures)
    ELSE LET fix == getDeleteFixForSpaceBetweenTokens(node, lastTokens[1], lastTokens[2])
         IN IF option = OPTION_NEVER /\ fix # <<>>
            THEN Returned(addFailureAt(failures, getStart(node), 1,
                                       FAILURE_SELF_CLOSING_NEVER, fix))
            ELSE IF option = OPTION_ALWAYS /\ fix = <<>>
            THEN LET addFix == appendText(SrcOffset(node, lastTokens[2][1].fullStart), <<SP>>)
                 IN Returned(addFailureAt(failures, getStart(node), 1,
                                          FAILURE_SELF_CLOSING_ALWAYS, <<addFix>>))
            ELSE Returned(failures)

\* lines 136-143, on firstTokens
validateClosingTagSlash(failures, node, option, firstTokens) ==
    IF ReadsUndefinedToken(firstTokens[1], firstTokens[2])
    THEN Threw(failures)
    ELSE LET fix == getDeleteFixForSpaceBetweenTokens(node, firstTokens[1], firstTokens[2])
         IN IF option = OPTION_NEVER /\ fix # <<>>
            THEN Returned(addFailureAt(failures, getStart(node), 1,
                                       FAILURE_CLOSING_NEVER, fix))
            ELSE IF option = OPTION_ALLOW /\ fix = <<>>
            THEN LET addFix == appendText(SrcOffset(node, firstTokens[2][1].fullStart), <<SP>>)
                 IN Returned(addFailureAt(failures, getStart(node), 1,
                                          FAILURE_CLOSING_ALWAYS, <<addFix>>))
            ELSE Returned(failures)

validateClosingSlash(failures, node, option) ==
    IF isJsxSelfClosingElement(node)
    THEN validateSelfClosingSlash(failures, node, option, closingSlashTokens(node))
    ELSE validateClosingTagSlash(failures, node, option, closingSlashTokens(node))

(***************************************************************************)
(* validateBeforeSelfClosing (lines 147-153): the function ends after      *)
(* locating the token before the slash; it adds no failure.                *)
(***************************************************************************)
\* line 150: the last attribute, or the tag name when there are no attributes
tokenBeforeClosingBracket(node) ==
    LET children == getChildren(node)
        attributes == SelectSeq(children, LAMBDA t : t.ch = "a")
        tagName == SelectSeq(children, LAMBDA t : t.ch = "F")
    IN IF Len(attributes) = 0 THEN tagName[1] ELSE attributes[Len(attributes)]

validateBeforeSelfClosing(failures, node, option) == Returned(failures)


(***************************************************************************)
(* validateAfterOpening and validateBeforeClosing: called by walk but not  *)
(* defined in src/; modelled from the specification (sections 4.3-4.5).    *)
(***************************************************************************)
\* one boundary under one policy: a gap under `never` is deleted, a missing
\* gap under `always` gets one space inserted
validateBoundary(failures, node, option, earlier, later, neverFailure, alwaysFailure) ==
    IF ReadsUndefinedToken(earlier, later)
    THEN Threw(failures)
    ELSE LET fix == getDeleteFixForSpaceBetweenTokens(node, earlier, later)
         IN IF option = OPTION_NEVER /\ fix # <<>>
            THEN Returned(addFailureAt(failures, getStart(node), 1, neverFailure, fix))
            ELSE IF option = OPTION_ALWAYS /\ fix = <<>>
            THEN LET addFix == appendText(SrcOffset(node, later[1].fullStart), <<SP>>)
                 IN Returned(addFailureAt(failures, getStart(node), 1, alwaysFailure, <<addFix>>))
            ELSE Returned(failures)

\* gaps that `allow-multiline` accepts: none, one space, one newline
MultilineCompliant(gap) == gap \in {<<>>, <<SP>>, <<NL>>}

\* the after-opening adjacency: the opening tag's ">" and the token after
\* it; for a closing tag, its "<" and the token after it
AfterOpeningTokens(node) ==
    IF isJsxClosingElement(node)
    THEN <<getFirstToken(node), getChildAt(node, 1)>>
    ELSE <<getLastToken(node), NextSiblingToken(node)>>

\* the after-opening boundary between the two tokens
validateAfterOpeningBetween(failures, node, option, earlier, later) ==
    IF option = OPTION_ALLOW_MULTILINE
    THEN IF ReadsUndefinedToken(earlier, later)
         THEN Threw(failures)
         ELSE IF MultilineCompliant(Classify(node.text, earlier[1], later[1]).gap)
         THEN Returned(failures)
         ELSE Returned(addFailureAt(failures, getStart(node), 1,
                                    FAILURE_AFTER_OPENING_NEVER, <<>>))
    ELSE validateBoundary(failures, node, option, earlier, later,
                          FAILURE_AFTER_OPENING_NEVER, FAILURE_AFTER_OPENING_ALWAYS)

validateAfterOpening(failures, node, option) ==
    validateAfterOpeningBetween(failures, node, option,
                                AfterOpeningTokens(node)[1], AfterOpeningTokens(node)[2])

\* the before-closing adjacency: the tag's end bracket and the token before it
validateBeforeClosing(failures, node, option) ==
    validateBoundary(failures, node, option,
                     getChildAt(node, getChildCount(node) - 2), getLastToken(node),
                     FAILURE_BEFORE_CLOSING_NEVER, FAILURE_BEFORE_CLOSING_ALWAYS)

(***************************************************************************)
(* walk (lines 92-121): the callback run on one node.                      *)
(***************************************************************************)
ShouldValidateAlways(policy) == TRUE

ShouldValidateUnlessAllowing(policy) == policy \notin {OPTION_ALLOW, OPTION_ALLOW_MULTILINE}

\* `ctx.options.<boundary> !== OPTION_ALLOW` (lines 95, 98, 101, 104, 109, 112, 115)
ShouldValidate(policy) == policy # OPTION_ALLOW

\* the next statement, a guarded call of the named validator whose result
\* on r.failures is v; it does not run when an earlier statement threw
Then(r, enabled, name, v) ==
    IF r.threw \/ ~enabled
    THEN r
    ELSE Outcome(v, Append(r.calls, name))

\* lines 95-97
openingClosingSlash(o, r, node) ==
    Then(r, ShouldValidate(o.closingSlash) /\ isJsxSelfClosingElement(node),
         "validateClosingSlash", validateClosingSlash(r.failures, node, o.closingSlash))

\* lines 98-100
openingAfterOpening(o, r, node) ==
    Then(r, ShouldValidate(o.afterOpening),
         "validateAfterOpening", validateAfterOpening(r.failures, node, o.afterOpening))

\* lines 101-103
openingBeforeSelfClosing(o, r, node) ==
    Then(r, ShouldValidate(o.beforeSelfClosing) /\ isJsxSelfClosingElement(node),
         "validateBeforeSelfClosing",
         validateBeforeSelfClosing(r.failures, node, o.beforeSelfClosing))

\* lines 104-106
openingBeforeClosing(o, r, node) ==
    Then(r, ShouldValidate(o.beforeClosing),
         "validateBeforeClosing", validateBeforeClosing(r.failures, node, o.beforeClosing))

\* lines 94-107; reading a property of undefined options is a TypeError
cbOpening(options, r, node) ==
    IF ~isJsxOpeningElement(node)
    THEN r
    ELSE IF options = <<>>
    THEN Outcome(Threw(r.failures), r.calls)
    ELSE openingBeforeClosing(options[1],
            openingBeforeSelfClosing(options[1],
               openingAfterOpening(options[1],
                  openingClosingSlash(options[1], r, node), node), node), node)

\* lines 109-111
closingAfterOpening(o, r, node) ==
    Then(r, ShouldValidate(o.afterOpening),
         "validateAfterOpening", validateAfterOpening(r.failures, node, o.afterOpening))

\* lines 112-114
closingClosingSlash(o, r, node) ==
    Then(r, ShouldValidate(o.closingSlash),
         "validateClosingSlash", validateClosingSlash(r.failures, node, o.closingSlash))

\* lines 115-117
closingBeforeClosing(o, r, node) ==
    Then(r, ShouldValidate(o.beforeClosing),
         "validateBeforeClosing", validateBeforeClosing(r.failures, node, o.beforeClosing))

\* lines 108-118; not reached when the opening branch threw
cbClosing(options, r, node) ==
    IF r.threw \/ ~isJsxClosingElement(node)
    THEN r
    ELSE IF options = <<>>
    THEN Outcome(Threw(r.failures), r.calls)
    ELSE closingBeforeClosing(options[1],
            closingClosingSlash(options[1],
               closingAfterOpening(options[1], r, node), node), node)

\* lines 93-118: the validators run on one node
cb(options, failures, node) ==
    cbClosing(options, cbOpening(options, Outcome(Returned(failures), <<>>), node), node)

(***************************************************************************)
(* Syntax trees.  A tree is the sequence of its nodes in source order,     *)
(* each with its nesting depth (children of the source file have depth 1). *)
(* A JsxElement owns no token; its children are its opening tag, its child *)
(* elements and its closing tag.  Each tag node carries its own text, and  *)
(* an opening tag's text extends to the first token of what follows it.    *)
(* `t` records how the tag was written: whether it has an attribute, and   *)
(* the whitespace g1 and g2 at its two gaps; `has` maps each boundary the  *)
(* tag has to the gap (1 or 2) it lies at.                                 *)
(***************************************************************************)
Tight == [attr |-> FALSE, g1 |-> <<>>, g2 |-> <<>>]

AttributesText(attr) == IF attr THEN <<SP, "a">> ELSE <<>>

ElementNode(depth) ==
    [kind |-> JsxElement, depth |-> depth, text |-> <<>>, start |-> 0,
     t |-> Tight, has |-> <<>>]

\* <F a{g1}>{g2}x
OpeningText(t) ==
    <<"<", "F">> \o AttributesText(t.attr) \o t.g1 \o <<">">> \o t.g2 \o <<"x">>

OpeningNode(depth, t) ==
    [kind |-> JsxOpeningElement, depth |-> depth, text |-> OpeningText(t), start |-> 0,
     t |-> t, has |-> [beforeClosing |-> 1, afterOpening |-> 2]]

\* <F a{g1}/{g2}>
SelfClosingText(t) ==
    <<"<", "F">> \o AttributesText(t.attr) \o t.g1 \o <<"/">> \o t.g2 \o <<">">>

SelfClosingNode(depth, t) ==
    [kind |-> JsxSelfClosingElement, depth |-> depth, text |-> SelfClosingText(t),
     start |-> 0, t |-> t, has |-> [beforeSelfClosing |-> 1, closingSlash |-> 2]]

\* <{g1}/F{g2}>
ClosingText(t) == <<"<">> \o t.g1 \o <<"/", "F">> \o t.g2 \o <<">">>

ClosingNode(depth, t) ==
    [kind |-> JsxClosingElement, depth |-> depth, text |-> ClosingText(t), start |-> 0,
     t |-> t, has |-> [closingSlash |-> 1, afterOpening |-> 1, beforeClosing |-> 2]]

\* a JsxElement has no child element, or one
KidCounts == 0..1

\* concatenations of n members of S
RECURSIVE Concats(_, _)
Concats(n, S) ==
    IF n = 0 THEN {<<>>} ELSE {a \o b : a \in S, b \in Concats(n - 1, S)}

\* the elements nested at most d deep, written with gaps t, at the given depth
RECURSIVE Elements(_, _, _)
Elements(d, depth, t) ==
    {<<SelfClosingNode(depth, t)>>} \cup
    (IF d = 0 THEN {}
     ELSE {<<ElementNode(depth), OpeningNode(depth + 1, t)>> \o kids
               \o <<ClosingNode(depth + 1, t)>> :
           kids \in UNION {Concats(n, Elements(d - 1, depth + 1, t)) : n \in KidCounts}})

\* length of the text of the first n nodes
RECURSIVE TextLength(_, _)
TextLength(nodes, n) ==
    IF n = 0 THEN 0 ELSE TextLength(nodes, n - 1) + Len(nodes[n].text)

\* the parser's positions: each node starts where the text before it ends
Positioned(nodes) ==
    [i \in 1..Len(nodes) |-> [nodes[i] EXCEPT !.start = TextLength(nodes, i - 1)]]

\* how tags are written: every whitespace run up to MaxGap at both gaps,
\* with and without an attribute
Templates == [attr : BOOLEAN, g1 : GapsUpTo(MaxGap), g2 : GapsUpTo(MaxGap)]

\* in the nested trees every gap is empty, or every gap is one space
TreeTemplates == {t \in Templates : ~t.attr /\ t.g1 = t.g2 /\ t.g1 \in {<<>>, <<SP>>}}

\* <F/> and <F>x</F> in every template, and the nested trees
SourceFiles ==
    {Positioned(nodes) :
        nodes \in UNION ({{<<SelfClosingNode(1, t)>>,
                           <<ElementNode(1), OpeningNode(2, t), ClosingNode(2, t)>>} :
                          t \in Templates}
                         \cup {Elements(MaxDepth, 1, t) : t \in TreeTemplates})}

\* children of node i (of the source file when i = 0), in source order
ChildrenOf(nodes, i) ==
    LET d == IF i = 0 THEN 0 ELSE nodes[i].depth
    IN SelectSeq([j \in 1..Len(nodes) |-> j],
                 LAMBDA j : /\ j > i
                            /\ nodes[j].depth = d + 1
                            /\ \A k \in (i + 1)..(j - 1) : nodes[k].depth > d)

(***************************************************************************)
(* State.                                                                  *)
(***************************************************************************)
VARIABLES
    ruleArguments,  \* this.ruleArguments: <<>> or <<configuration object>>
    sourceFile,     \* the syntax tree
    options,        \* ctx.options: <<>> (undefined) or <<object>>
    stack,          \* nodes the traversal has still to call cb on, next first
    visited,        \* nodes cb was called on, in call order
    calls,          \* <<node, validator>> for every validator call, in call order
    failures,       \* ctx.failures
    status          \* "init", "walking", "done", "error"; "unit", "returned", "threw"

vars == <<ruleArguments, sourceFile, options, stack, visited, calls, failures, status>>

Init ==
    /\ sourceFile \in SourceFiles
    /\ ruleArguments \in {<<>>} \cup {<<o>> : o \in IRuleOptions}
    /\ options = <<>>
    /\ stack = <<>>
    /\ visited = <<>>
    /\ calls = <<>>
    /\ failures = <<>>
    /\ status = "init"

\* Rule.apply (lines 86-89): the first rule argument is the options object;
\* the walk starts at the children of the source file
Apply ==
    /\ status = "init"
    /\ options' = ruleArguments
    /\ stack' = ChildrenOf(sourceFile, 0)
    /\ status' = "walking"
    /\ UNCHANGED <<ruleArguments, sourceFile, visited, calls, failures>>

\* the effect of cb on node n, whose validators ended as r: cb then
\* descends into the node's children before the remaining siblings (line
\* 119); an exception ends the walk
CallbackEnds(n, r) ==
    /\ visited' = Append(visited, n)
    /\ calls' = calls \o [k \in 1..Len(r.calls) |-> <<n, r.calls[k]>>]
    /\ failures' = r.failures
    /\ IF r.threw
       THEN status' = "error" /\ stack' = stack
       ELSE status' = status /\ stack' = ChildrenOf(sourceFile, n) \o Tail(stack)

\* ts.forEachChild calls cb on the next node (lines 93-119)
Callback ==
    /\ status = "walking"
    /\ stack # <<>>
    /\ CallbackEnds(Head(stack), cb(options, failures, sourceFile[Head(stack)]))
    /\ UNCHANGED <<ruleArguments, sourceFile, options>>

\* every node was visited: applyWithFunction returns ctx.failures
Return ==
    /\ status = "walking"
    /\ stack = <<>>
    /\ status' = "done"
    /\ UNCHANGED <<ruleArguments, sourceFile, options, stack, visited, calls, failures>>

Next == Apply \/ Callback \/ Return

Spec == Init /\ [][Next]_vars

(***************************************************************************)
(* validateClosingSlash called on its own, on well-formed tags and on tag  *)
(* nodes with fewer than two tokens.                                       *)
(***************************************************************************)
MalformedNode(kind, text) ==
    [kind |-> kind, depth |-> 1, text |-> text, start |-> 0, t |-> Tight, has |-> <<>>]

UnitNodes ==
    {SelfClosingNode(1, t) : t \in Templates}
    \cup {ClosingNode(1, t) : t \in Templates}
    \cup {MalformedNode(kind, text) :
            kind \in {JsxSelfClosingElement, JsxClosingElement},
            text \in {<<>>, <<"<">>, <<"/">>, <<">">>, <<SP, ">">>}}

InitUnit ==
    /\ \E node \in UnitNodes : sourceFile = <<node>>
    /\ \E option \in SPACING_VALUES \cup {UNSET} :
          ruleArguments = <<[closingSlash |-> option, beforeSelfClosing |-> OPTION_ALLOW,
                             afterOpening |-> OPTION_ALLOW, beforeClosing |-> OPTION_ALLOW]>>
    /\ options = ruleArguments
    /\ stack = <<>>
    /\ visited = <<>>
    /\ calls = <<>>
    /\ failures = <<>>
    /\ status = "unit"

InvokeValidateClosingSlash ==
    /\ status = "unit"
    /\ LET r == validateClosingSlash(failures, sourceFile[1], options[1].closingSlash)
       IN /\ failures' = r.failures
          /\ status' = IF r.threw THEN "threw" ELSE "returned"
    /\ calls' = Append(calls, <<1, "validateClosingSlash">>)
    /\ UNCHANGED <<ruleArguments, sourceFile, options, stack, visited>>

NextUnit == InvokeValidateClosingSlash

SpecUnit == InitUnit /\ [][NextUnit]_vars


(***************************************************************************)
(* Vocabulary of the properties.                                           *)
(***************************************************************************)
\* the tag nodes of the tree
TagNodes == {i \in 1..Len(sourceFile) : sourceFile[i].kind # JsxElement}

\* the whitespace the tag was written with at boundary b
GapOf(node, b) == IF node.has[b] = 1 THEN node.t.g1 ELSE node.t.g2

\* the text of a tag written like t
TextOf(kind, t) ==
    IF kind = JsxOpeningElement THEN OpeningText(t)
    ELSE IF kind = JsxSelfClosingElement THEN SelfClosingText(t)
    ELSE ClosingText(t)

\* the text of the tag with the whitespace at boundary b replaced by g
Rewritten(node, b, g) ==
    TextOf(node.kind,
           IF node.has[b] = 1 THEN [node.t EXCEPT !.g1 = g] ELSE [node.t EXCEPT !.g2 = g])

\* the policy in force for boundary b
Policy(b) == options[1][b]

\* the boundary a failure message is about
BoundaryOf(message) ==
    IF message \in {FAILURE_SELF_CLOSING_NEVER, FAILURE_SELF_CLOSING_ALWAYS,
                    FAILURE_CLOSING_NEVER, FAILURE_CLOSING_ALWAYS}
    THEN "closingSlash"
    ELSE IF message \in {FAILURE_BEFORE_SELF_CLOSING_NEVER, FAILURE_BEFORE_SELF_CLOSING_ALWAYS}
    THEN "beforeSelfClosing"
    ELSE IF message \in {FAILURE_AFTER_OPENING_NEVER, FAILURE_AFTER_OPENING_ALWAYS}
    THEN "afterOpening"
    ELSE "beforeClosing"

\* the validator of a boundary
ValidatorOf(b) ==
    [closingSlash |-> "validateClosingSlash", beforeSelfClosing |-> "validateBeforeSelfClosing",
     afterOpening |-> "validateAfterOpening", beforeClosing |-> "validateBeforeClosing"][b]

\* the failures of fs reported at the node for boundary b
FailuresFor(fs, node, b) ==
    SelectSeq(fs, LAMBDA f : f.start = node.start /\ BoundaryOf(f.message) = b)

\* the failures of a second run of the callback on the node with its text edited
Revalidated(node, text) == cb(options, <<>>, [node EXCEPT !.text = text]).failures

\* the fix deletes exactly the whitespace at boundary b of the node
DeletesGap(fix, node, b) ==
    /\ fix # <<>>
    /\ fix[1].text = <<>>
    /\ fix[1].length = Len(GapOf(node, b))
    /\ ApplyFix(node.text, node.start, fix[1]) = Rewritten(node, b, <<>>)

\* the fix inserts exactly one space at boundary b of the node
InsertsSpace(fix, node, b) ==
    /\ fix # <<>>
    /\ fix[1].text = <<SP>>
    /\ fix[1].length = 0
    /\ ApplyFix(node.text, node.start, fix[1]) = Rewritten(node, b, <<SP>>)

\* number of tokens in a text
TokenCount(text) == Cardinality({i \in 1..Len(text) : text[i] \notin {SP, NL}})

Range(seq) == {seq[i] : i \in 1..Len(seq)}

(***************************************************************************)
(* C1: a boundary whose policy is `allow` gets no failure in a run of the  *)
(* walker, whatever whitespace is at it.                                   *)
(***************************************************************************)
C1_AllowReportsNothing ==
    \A k \in 1..Len(failures) :
        /\ options # <<>>
        /\ Policy(BoundaryOf(failures[k].message)) # OPTION_ALLOW

\* a finished run over a tag with whitespace at a boundary under `allow`
\* and a tag with none
C1_Witness ==
    /\ status = "done"
    /\ options # <<>>
    /\ \E i \in TagNodes : \E b \in DOMAIN sourceFile[i].has :
          Policy(b) = OPTION_ALLOW /\ GapOf(sourceFile[i], b) # <<>>
    /\ \E i \in TagNodes : \E b \in DOMAIN sourceFile[i].has :
          Policy(b) = OPTION_ALLOW /\ GapOf(sourceFile[i], b) = <<>>


(***************************************************************************)
(* C2: at every boundary of every tag whose policy is `never` and that has *)
(* whitespace, a finished run reports exactly one failure; its fix deletes *)
(* the whole gap, and validating the fixed text reports nothing there.     *)
(***************************************************************************)
C2_NeverDeletesWholeGap ==
    (status = "done" /\ options # <<>>) =>
    \A i \in TagNodes : \A b \in DOMAIN sourceFile[i].has :
        LET node == sourceFile[i]
            fs == FailuresFor(failures, node, b)
        IN (Policy(b) = OPTION_NEVER /\ GapOf(node, b) # <<>>) =>
              /\ Len(fs) = 1
              /\ DeletesGap(fs[1].fix, node, b)
              /\ FailuresFor(Revalidated(node, Rewritten(node, b, <<>>)), node, b) = <<>>

(***************************************************************************)
(* C3: at every boundary of every tag whose policy is `always` and that    *)
(* has no whitespace, a finished run reports exactly one failure; its fix  *)
(* inserts one space there, and validating the fixed text reports nothing  *)
(* there.                                                                  *)
(***************************************************************************)
C3_AlwaysInsertsOneSpace ==
    (status = "done" /\ options # <<>>) =>
    \A i \in TagNodes : \A b \in DOMAIN sourceFile[i].has :
        LET node == sourceFile[i]
            fs == FailuresFor(failures, node, b)
        IN (Policy(b) = OPTION_ALWAYS /\ GapOf(node, b) = <<>>) =>
              /\ Len(fs) = 1
              /\ InsertsSpace(fs[1].fix, node, b)
              /\ FailuresFor(Revalidated(node, Rewritten(node, b, <<SP>>)), node, b) = <<>>

(***************************************************************************)
(* C4: under `closingSlash: always` a closing tag written `</F` gets       *)
(* exactly one failure, FAILURE_CLOSING_ALWAYS with a one-space insert,    *)
(* and a closing tag with whitespace between `<` and `/` gets none for     *)
(* that boundary.                                                          *)
(***************************************************************************)
C4_ClosingTagAlways ==
    (status = "done" /\ options # <<>>) =>
    \A i \in TagNodes :
        LET node == sourceFile[i]
            fs == FailuresFor(failures, node, "closingSlash")
        IN (isJsxClosingElement(node) /\ Policy("closingSlash") = OPTION_ALWAYS) =>
              IF GapOf(node, "closingSlash") = <<>>
              THEN /\ Len(fs) = 1
                   /\ fs[1].message = FAILURE_CLOSING_ALWAYS
                   /\ InsertsSpace(fs[1].fix, node, "closingSlash")
              ELSE fs = <<>>

(***************************************************************************)
(* C5: in a finished run validateClosingSlash was called on every          *)
(* self-closing tag when `closingSlash` is `always` or `never`; `<F / >`   *)
(* under `closingSlash: never`, `beforeSelfClosing: allow` has exactly one *)
(* failure, FAILURE_SELF_CLOSING_NEVER, whose fix leaves `/>`.             *)
(***************************************************************************)
C5_SelfClosingTagValidated ==
    (status = "done" /\ options # <<>>) =>
    \A i \in TagNodes :
        LET node == sourceFile[i]
            fs == FailuresFor(failures, node, "closingSlash")
        IN isJsxSelfClosingElement(node) =>
              /\ Policy("closingSlash") \in {OPTION_ALWAYS, OPTION_NEVER}
                    => <<i, "validateClosingSlash">> \in Range(calls)
              /\ (/\ Policy("closingSlash") = OPTION_NEVER
                  /\ Policy("beforeSelfClosing") = OPTION_ALLOW
                  /\ node.t = [attr |-> FALSE, g1 |-> <<SP>>, g2 |-> <<SP>>])
                    => /\ Len(failures) = 1
                       /\ Len(fs) = 1
                       /\ fs[1].message = FAILURE_SELF_CLOSING_NEVER
                       /\ DeletesGap(fs[1].fix, node, "closingSlash")

(***************************************************************************)
(* C6: under `beforeSelfClosing: never` a self-closing tag with whitespace *)
(* between its last attribute (its name when it has none) and `/` gets one *)
(* failure for that boundary; under `always` one without whitespace there  *)
(* gets one, whose fix inserts a space before `/`.                         *)
(***************************************************************************)
C6_BeforeSelfClosingReported ==
    (status = "done" /\ options # <<>>) =>
    \A i \in TagNodes :
        LET node == sourceFile[i]
            fs == FailuresFor(failures, node, "beforeSelfClosing")
            before == tokenBeforeClosingBracket(node)
        IN isJsxSelfClosingElement(node) =>
              /\ (Policy("beforeSelfClosing") = OPTION_NEVER
                    /\ node.text[before.end + 1] # "/")
                    => Len(fs) = 1
              /\ (Policy("beforeSelfClosing") = OPTION_ALWAYS
                    /\ node.text[before.end + 1] = "/")
                    => /\ Len(fs) = 1
                       /\ InsertsSpace(fs[1].fix, node, "beforeSelfClosing")

(***************************************************************************)
(* C7: under `afterOpening: allow-multiline`, an opening or closing tag    *)
(* whose after-opening gap is one newline gets no failure for that         *)
(* boundary; one whose gap is two or more spaces, or has a space followed  *)
(* by a newline, gets one.                                                 *)
(***************************************************************************)
SpacesOnly(gap) == \A k \in 1..Len(gap) : gap[k] = SP

SpaceThenNewline(gap) ==
    \E j, k \in 1..Len(gap) : j < k /\ gap[j] = SP /\ gap[k] = NL

C7_AllowMultiline ==
    (status = "done" /\ options # <<>>) =>
    \A i \in TagNodes :
        LET node == sourceFile[i]
            gap == GapOf(node, "afterOpening")
            fs == FailuresFor(failures, node, "afterOpening")
        IN (/\ Policy("afterOpening") = OPTION_ALLOW_MULTILINE
            /\ (isJsxOpeningElement(node) \/ isJsxClosingElement(node))) =>
              /\ gap = <<NL>> => fs = <<>>
              /\ ((Len(gap) >= 2 /\ SpacesOnly(gap)) \/ SpaceThenNewline(gap))
                    => Len(fs) = 1

\* <F>{newline}x<{space newline}/F> walked under allow-multiline
C7_Witness ==
    /\ status = "done"
    /\ options # <<>>
    /\ Policy("afterOpening") = OPTION_ALLOW_MULTILINE
    /\ \E i \in TagNodes :
          /\ isJsxOpeningElement(sourceFile[i])
          /\ GapOf(sourceFile[i], "afterOpening") = <<NL>>
          /\ FailuresFor(failures, sourceFile[i], "afterOpening") = <<>>
    /\ \E i \in TagNodes :
          /\ isJsxClosingElement(sourceFile[i])
          /\ SpaceThenNewline(GapOf(sourceFile[i], "afterOpening"))
          /\ Len(FailuresFor(failures, sourceFile[i], "afterOpening")) = 1

(***************************************************************************)
(* C8: for every policy field the configuration leaves out (all four when  *)
(* there is no configuration object) the run does not fail and reports     *)
(* nothing for that boundary.                                              *)
(***************************************************************************)
Unspecified(b) == ruleArguments = <<>> \/ ruleArguments[1][b] = UNSET

C8_UnspecifiedMeansAllow ==
    \A b \in Boundaries :
        Unspecified(b) =>
            /\ status # "error"
            /\ \A k \in 1..Len(failures) : BoundaryOf(failures[k].message) # b

RECURSIVE PreOrder(_, _)
PreOrder(nodes, kids) ==
    IF kids = <<>> THEN <<>>
    ELSE <<Head(kids)>> \o PreOrder(nodes, ChildrenOf(nodes, Head(kids)))
             \o PreOrder(nodes, Tail(kids))

VisitedInPreOrder ==
    /\ visited = PreOrder(sourceFile, ChildrenOf(sourceFile, 0))
    /\ visited = [i \in 1..Len(sourceFile) |-> i]

FailuresInVisitOrder ==
    \A j, k \in 1..Len(failures) : j < k => failures[j].start <= failures[k].start

AtMostOnePerBoundary ==
    \A i \in TagNodes : \A b \in Boundaries :
        Len(FailuresFor(failures, sourceFile[i], b)) <= 1

EnabledValidatorsRan ==
    \A i \in TagNodes : \A b \in DOMAIN sourceFile[i].has :
        Policy(b) \notin {OPTION_ALLOW, UNSET} => <<i, ValidatorOf(b)>> \in Range(calls)

C10_FullTraversal ==
    (ruleArguments # <<>> /\ status \in {"done", "error"}) =>
        /\ status = "done"
        /\ VisitedInPreOrder
        /\ EnabledValidatorsRan
        /\ FailuresInVisitOrder
        /\ AtMostOnePerBoundary

\* what holds of the traversal once the validators that never run on
\* self-closing tags are left aside
C10_TraversalOnly ==
    (ruleArguments # <<>> /\ status \in {"done", "error"}) =>
        /\ status = "done"
        /\ VisitedInPreOrder
        /\ FailuresInVisitOrder
        /\ AtMostOnePerBoundary

====
